---- MODULE Spec2Model ----
(***************************************************************************)
(* Model of the MMU firmware core: the Home command state machine          *)
(* (src/logic/home.cpp) and the register access engine with its register   *)
(* table (src/registers.cpp).  The main loop serialises every call, so     *)
(* each call is one atomic action.                                         *)
(***************************************************************************)
EXTENDS Integers, Sequences, FiniteSets, TLC

\* --------------------------------------------------------------- bounds
\* number of ReadRegister/WriteRegister calls followed in one behaviour
MaxCalls == 2
\* consecutive Reset calls counted before the count saturates
MaxResets == 2

\* ------------------------------------------------------------ constants
\* uint8_t address: the largest address the host can send
MaxAddress == 255
\* config::toolCount, used by the write function of register 0x1C
toolCount == 5

\* values the host writes: below, at and above toolCount, zero/non-zero,
\* and one value that does not fit in a byte
Values == {0, 5, 300}
\* what the caller's variable may hold before a ReadRegister call
CallerValues == {0, 65535}

\* ----------------------------------------------------- enumerated types
\* ProgressCode: Home uses Homing, OK and ERRInternal; EngagingIdler stands
\* for the phases of the other commands, which Home does not handle
ProgressCodes == {"OK", "Homing", "ERRInternal", "EngagingIdler"}
ErrorCodes == {"RUNNING", "OK", "INTERNAL"}
\* states reported by mi::idler.State() and ms::selector.State()
\* (Moving stands for every state other than Ready)
AxisStates == {"Ready", "Moving"}

\* wire-numeric encoding of ProgressCode (uint16_t conversion in the lambdas)
ProgressCodeNum(p) ==
    CASE p = "OK" -> 0
      [] p = "EngagingIdler" -> 1
      [] p = "ERRInternal" -> 13
      [] p = "Homing" -> 26

\* wire-numeric encoding of ErrorCode
ErrorCodeNum(e) ==
    CASE e = "RUNNING" -> 0
      [] e = "OK" -> 1
      [] e = "INTERNAL" -> 32814

\* configuration values read by the read-only registers 0x0E..0x10, 0x15..0x19
config ==
    [pulleyAccel |-> 800, selectorAccel |-> 200, idlerAccel |-> 500,
     selectorHomingFeedrate |-> 30, idlerHomingFeedrate |-> 265,
     pulleySgThrs |-> 8, selectorSgThrs |-> 3, idlerSgThrs |-> 6]

VARIABLES
    state,       \* Home::state (ProgressCode)
    error,       \* Home::error (ErrorCode)
    idler,       \* mi::idler: [state, slot, engaged]
    selector,    \* ms::selector: [state, slot]
    globals,     \* mg::globals: the values behind the accessor registers
    fsensor,     \* mfs::fsensor.Pressed()
    finda,       \* mf::finda.Pressed()
    pulley,      \* mpu::pulley.CurrentPosition_mm()
    valid,       \* homing / filament-presence state known (TRUE) or invalidated
    mem,         \* raw memory cells the table points to
    lastOp,      \* the call made last
    valueIn,     \* ReadRegister: the caller's uint16_t variable before the call;
                 \* WriteRegister: the value of a write that succeeded
    value,       \* ReadRegister: the caller's uint16_t variable after the call
    lastAddr,    \* its address argument (register calls)
    lastRet,     \* its bool result
    calls,       \* register calls made so far
    stateIn,     \* Home::state when the last call was entered
    errorIn,     \* Home::error when the last call was entered
    resets       \* Reset calls made in a row, none other in between

vars == <<state, error, idler, selector, globals, fsensor, finda, pulley, valid,
          mem, lastOp, lastAddr, lastRet, valueIn, value, calls, stateIn, errorIn,
          resets>>

\* the subsystems and memory behind the registers
hw == <<idler, selector, globals, fsensor, finda, pulley, valid, mem>>
\* the active command's progress and error codes
command == <<state, error>>

\* a call that is no register call has no value going in or out
NoValue == valueIn' = 0 /\ value' = 0

\* every call records the command it found; a call other than Reset ends a
\* row of Reset calls
Entered == stateIn' = state /\ errorIn' = error
NotReset == Entered /\ resets' = 0

\* the current state as one value, for the functions that read or change it
Sys ==
    [state |-> state, error |-> error, idler |-> idler, selector |-> selector,
     globals |-> globals, fsensor |-> fsensor, finda |-> finda, pulley |-> pulley,
     valid |-> valid, mem |-> mem]

\* both homing axes report Ready
BothReady == idler.state = "Ready" /\ selector.state = "Ready"

\* ------------------------------------------------------------ Home command
\* CommandBase::InvalidateHomingAndFilamentState: homing of both axes and the
\* filament presence become unknown
InvalidateHomingAndFilamentState == [homing |-> FALSE, filament |-> FALSE]

\* StepInner with `return true` right after the transition to OK
StepInner_DoneAtOnce(st, er, idlerState, selectorState) ==
    CASE st = "Homing" ->
            IF idlerState = "Ready" /\ selectorState = "Ready"
            THEN [state |-> "OK", error |-> "OK", ret |-> TRUE]
            ELSE [state |-> st, error |-> er, ret |-> FALSE]
      [] st = "OK" -> [state |-> st, error |-> er, ret |-> TRUE]
      [] OTHER -> [state |-> "ERRInternal", error |-> "INTERNAL", ret |-> TRUE]

\* StepInner that forgets `error = ErrorCode::OK` in the transition
StepInner_ErrorKept(st, er, idlerState, selectorState) ==
    CASE st = "Homing" ->
            IF idlerState = "Ready" /\ selectorState = "Ready"
            THEN [state |-> "OK", error |-> er, ret |-> FALSE]
            ELSE [state |-> st, error |-> er, ret |-> FALSE]
      [] st = "OK" -> [state |-> st, error |-> er, ret |-> TRUE]
      [] OTHER -> [state |-> "ERRInternal", error |-> "INTERNAL", ret |-> TRUE]

\* StepInner with || in place of && between the two readiness tests
StepInner_EitherReady(st, er, idlerState, selectorState) ==
    CASE st = "Homing" ->
            IF idlerState = "Ready" \/ selectorState = "Ready"
            THEN [state |-> "OK", error |-> "OK", ret |-> FALSE]
            ELSE [state |-> st, error |-> er, ret |-> FALSE]
      [] st = "OK" -> [state |-> st, error |-> er, ret |-> TRUE]
      [] OTHER -> [state |-> "ERRInternal", error |-> "INTERNAL", ret |-> TRUE]

\* StepInner without `case ProgressCode::OK`, which then falls to the default
StepInner_OKUnhandled(st, er, idlerState, selectorState) ==
    CASE st = "Homing" ->
            IF idlerState = "Ready" /\ selectorState = "Ready"
            THEN [state |-> "OK", error |-> "OK", ret |-> FALSE]
            ELSE [state |-> st, error |-> er, ret |-> FALSE]
      [] OTHER -> [state |-> "ERRInternal", error |-> "INTERNAL", ret |-> TRUE]

\* StepInner whose OK branch breaks to `return false`
StepInner_OKBreaks(st, er, idlerState, selectorState) ==
    CASE st = "Homing" ->
            IF idlerState = "Ready" /\ selectorState = "Ready"
            THEN [state |-> "OK", error |-> "OK", ret |-> FALSE]
            ELSE [state |-> st, error |-> er, ret |-> FALSE]
      [] st = "OK" -> [state |-> st, error |-> er, ret |-> FALSE]
      [] OTHER -> [state |-> "ERRInternal", error |-> "INTERNAL", ret |-> TRUE]

\* StepInner whose default branch falls through to `return false`
StepInner_DefaultBreaks(st, er, idlerState, selectorState) ==
    CASE st = "Homing" ->
            IF idlerState = "Ready" /\ selectorState = "Ready"
            THEN [state |-> "OK", error |-> "OK", ret |-> FALSE]
            ELSE [state |-> st, error |-> er, ret |-> FALSE]
      [] st = "OK" -> [state |-> st, error |-> er, ret |-> TRUE]
      [] OTHER -> [state |-> "ERRInternal", error |-> "INTERNAL", ret |-> FALSE]

\* Home::StepInner: the new state and error, and the value returned
StepInner(st, er, idlerState, selectorState) ==
    CASE st = "Homing" ->
            IF idlerState = "Ready" /\ selectorState = "Ready"
            THEN [state |-> "OK", error |-> "OK", ret |-> FALSE]
            ELSE [state |-> st, error |-> er, ret |-> FALSE]
      [] st = "OK" -> [state |-> st, error |-> er, ret |-> TRUE]
      [] OTHER -> [state |-> "ERRInternal", error |-> "INTERNAL", ret |-> TRUE]

\* Reset that forgets `error = ErrorCode::RUNNING`
Reset_ErrorKept ==
    \E param \in {0, toolCount - 1} :
        /\ error' = error
        /\ state' = "Homing"
        /\ valid' = InvalidateHomingAndFilamentState
        /\ lastOp' = "Reset" /\ lastAddr' = 0 /\ lastRet' = FALSE /\ NoValue
        /\ Entered
        /\ resets' = IF resets < MaxResets THEN resets + 1 ELSE resets
        /\ UNCHANGED <<idler, selector, globals, fsensor, finda, pulley, mem, calls>>

\* Reset that restarts only a command that is not running, and takes a
\* Reset of a running command as its end
Reset_Toggles ==
    \E param \in {0, toolCount - 1} :
        /\ error' = IF state = "Homing" THEN "OK" ELSE "RUNNING"
        /\ state' = IF state = "Homing" THEN "OK" ELSE "Homing"
        /\ valid' = InvalidateHomingAndFilamentState
        /\ lastOp' = "Reset" /\ lastAddr' = 0 /\ lastRet' = FALSE /\ NoValue
        /\ Entered
        /\ resets' = IF resets < MaxResets THEN resets + 1 ELSE resets
        /\ UNCHANGED <<idler, selector, globals, fsensor, finda, pulley, mem, calls>>

\* Reset without the call of InvalidateHomingAndFilamentState
Reset_KeepsValidity ==
    \E param \in {0, toolCount - 1} :
        /\ error' = "RUNNING"
        /\ state' = "Homing"
        /\ lastOp' = "Reset" /\ lastAddr' = 0 /\ lastRet' = FALSE /\ NoValue
        /\ Entered
        /\ resets' = IF resets < MaxResets THEN resets + 1 ELSE resets
        /\ UNCHANGED <<idler, selector, globals, fsensor, finda, pulley, valid,
                       mem, calls>>

\* Home::Reset(param): param is ignored
Reset ==
    \E param \in {0, toolCount - 1} :
        /\ error' = "RUNNING"
        /\ state' = "Homing"
        /\ valid' = InvalidateHomingAndFilamentState
        /\ lastOp' = "Reset" /\ lastAddr' = 0 /\ lastRet' = FALSE /\ NoValue
        /\ Entered
        /\ resets' = IF resets < MaxResets THEN resets + 1 ELSE resets
        /\ UNCHANGED <<idler, selector, globals, fsensor, finda, pulley, mem, calls>>

\* a Step that plans the homing move of the idler itself while Homing
Step_PlansHome ==
    LET r == StepInner(state, error, idler.state, selector.state) IN
        /\ state' = r.state
        /\ error' = r.error
        /\ idler' = IF state = "Homing" THEN [idler EXCEPT !.state = "Moving"]
                                       ELSE idler
        /\ lastOp' = "Step" /\ lastAddr' = 0 /\ lastRet' = r.ret /\ NoValue
        /\ NotReset
        /\ UNCHANGED <<selector, globals, fsensor, finda, pulley, valid, mem, calls>>

\* one Step of the active command from the main loop
Step ==
    LET r == StepInner(state, error, idler.state, selector.state) IN
        /\ state' = r.state
        /\ error' = r.error
        /\ lastOp' = "Step" /\ lastAddr' = 0 /\ lastRet' = r.ret /\ NoValue
        /\ NotReset
        /\ UNCHANGED <<hw, calls>>

\* --------------------------------------------------------- register table
\* RegisterFlags / RegisterRec(bool writable, T *address): raw memory, read
\* and written through A1.addr; size is sizeof(T), kept in a 2-bit field
RegisterRecAddr(writable, address, size) ==
    [flags |-> [writable |-> writable, rwfuncs |-> FALSE, size |-> size % 4],
     A1 |-> address, A2 |-> "nullptr"]

\* the two-argument constructor passing writable = true, as the
\* three-argument one does, while it has no write function to store
RegisterRecR_Writable(readFunc, bytes) ==
    [flags |-> [writable |-> TRUE, rwfuncs |-> TRUE, size |-> bytes % 4],
     A1 |-> readFunc, A2 |-> "nullptr"]

\* RegisterRec(readFunc, bytes): read-only, computed
RegisterRecR(readFunc, bytes) ==
    [flags |-> [writable |-> FALSE, rwfuncs |-> TRUE, size |-> bytes % 4],
     A1 |-> readFunc, A2 |-> "nullptr"]

\* the three-argument constructor passing writable = false, as the
\* two-argument one does
RegisterRecRW_ReadOnly(readFunc, writeFunc, bytes) ==
    [flags |-> [writable |-> FALSE, rwfuncs |-> TRUE, size |-> bytes % 4],
     A1 |-> readFunc, A2 |-> writeFunc]

\* RegisterRec(readFunc, writeFunc, bytes): computed, writable
RegisterRecRW(readFunc, writeFunc, bytes) ==
    [flags |-> [writable |-> TRUE, rwfuncs |-> TRUE, size |-> bytes % 4],
     A1 |-> readFunc, A2 |-> writeFunc]

\* static const RegisterRec registers[]: entry i+1 is protocol address i
registers ==
    << RegisterRecAddr(FALSE, "project_major", 1),                      \* 0x00
       RegisterRecAddr(FALSE, "project_minor", 1),                      \* 0x01
       RegisterRecAddr(FALSE, "project_revision", 1),                   \* 0x02
       RegisterRecAddr(FALSE, "project_build_number", 1),               \* 0x03
       RegisterRecR("DriveErrors", 2),                                  \* 0x04
       RegisterRecR("CurrentProgressCode", 1),                          \* 0x05
       RegisterRecR("CurrentErrorCode", 2),                             \* 0x06
       RegisterRecRW("FilamentLoaded", "SetFilamentLoaded", 1),         \* 0x07
       RegisterRecR("FindaPressed", 1),                                 \* 0x08
       RegisterRecRW("FSensorPressed", "ProcessMessage", 1),            \* 0x09
       RegisterRecR("MotorsStealth", 1),                                \* 0x0A
       RegisterRecRW("FSensorToNozzle_mm", "SetFSensorToNozzle_mm", 1), \* 0x0B
       RegisterRecRW("FSensorUnloadCheck_mm", "SetFSensorUnloadCheck_mm", 1), \* 0x0C
       RegisterRecRW("PulleyUnloadFeedrate_mm_s", "SetPulleyUnloadFeedrate_mm_s", 2), \* 0x0D
       RegisterRecR("pulleyLimits_accel", 2),                           \* 0x0E
       RegisterRecR("selectorLimits_accel", 2),                         \* 0x0F
       RegisterRecR("idlerLimits_accel", 2),                            \* 0x10
       RegisterRecRW("PulleyLoadFeedrate_mm_s", "SetPulleyLoadFeedrate_mm_s", 2), \* 0x11
       RegisterRecRW("SelectorFeedrate_mm_s", "SetSelectorFeedrate_mm_s", 2), \* 0x12
       RegisterRecRW("IdlerFeedrate_deg_s", "SetIdlerFeedrate_deg_s", 2), \* 0x13
       RegisterRecRW("PulleySlowFeedrate_mm_s", "SetPulleySlowFeedrate_mm_s", 2), \* 0x14
       RegisterRecR("selectorHomingFeedrate", 2),                       \* 0x15
       RegisterRecR("idlerHomingFeedrate", 2),                          \* 0x16
       RegisterRecR("pulley_sg_thrs", 2),                               \* 0x17
       RegisterRecR("selector_sg_thrs", 2),                             \* 0x18
       RegisterRecR("idler_sg_thrs", 2),                                \* 0x19
       RegisterRecR("CurrentPosition_mm", 2),                           \* 0x1A
       RegisterRecRW("SelectorSlot", "MoveToSlot", 1),                  \* 0x1B
       RegisterRecRW("IdlerSlot", "EngageOrDisengage", 1) >>            \* 0x1C

\* sizeof(registers) / sizeof(RegisterRec)
registersSize == Len(registers)

\* addresses the host sends: the table, the first address past it, and the last
Addresses == (0 .. registersSize) \cup {MaxAddress}

\* the read lambdas of the table (A1.readFunc), on the state S
ReadFunc(f, S) ==
    CASE f = "DriveErrors" -> S.globals.driveErrors
      [] f = "CurrentProgressCode" -> ProgressCodeNum(S.state)
      [] f = "CurrentErrorCode" -> ErrorCodeNum(S.error)
      [] f = "FilamentLoaded" -> S.globals.filamentLoaded
      [] f = "FindaPressed" -> IF S.finda THEN 1 ELSE 0
      [] f = "FSensorPressed" -> IF S.fsensor THEN 1 ELSE 0
      [] f = "MotorsStealth" -> IF S.globals.motorsStealth THEN 1 ELSE 0
      [] f = "FSensorToNozzle_mm" -> S.globals.fsensorToNozzle_mm
      [] f = "FSensorUnloadCheck_mm" -> S.globals.fsensorUnloadCheck_mm
      [] f = "PulleyUnloadFeedrate_mm_s" -> S.globals.pulleyUnloadFeedrate_mm_s
      [] f = "pulleyLimits_accel" -> config.pulleyAccel
      [] f = "selectorLimits_accel" -> config.selectorAccel
      [] f = "idlerLimits_accel" -> config.idlerAccel
      [] f = "PulleyLoadFeedrate_mm_s" -> S.globals.pulleyLoadFeedrate_mm_s
      [] f = "SelectorFeedrate_mm_s" -> S.globals.selectorFeedrate_mm_s
      [] f = "IdlerFeedrate_deg_s" -> S.globals.idlerFeedrate_deg_s
      [] f = "PulleySlowFeedrate_mm_s" -> S.globals.pulleySlowFeedrate_mm_s
      [] f = "selectorHomingFeedrate" -> config.selectorHomingFeedrate
      [] f = "idlerHomingFeedrate" -> config.idlerHomingFeedrate
      [] f = "pulley_sg_thrs" -> config.pulleySgThrs
      [] f = "selector_sg_thrs" -> config.selectorSgThrs
      [] f = "idler_sg_thrs" -> config.idlerSgThrs
      [] f = "CurrentPosition_mm" -> S.pulley
      [] f = "SelectorSlot" -> S.selector.slot
      [] f = "IdlerSlot" -> S.idler.slot

\* mi::idler.Engage(slot): the idler starts moving to press on that slot
Engage(slot) == [state |-> "Moving", slot |-> slot, engaged |-> TRUE]

\* mi::idler.Disengage(): the idler starts moving to its idle position, whose
\* slot index is toolCount
Disengage == [state |-> "Moving", slot |-> toolCount, engaged |-> FALSE]

\* the write lambdas with the test of 0x1c written `d > config::toolCount`
WriteFunc_AboveToolCount(f, v, S) ==
    CASE f = "SetFilamentLoaded" ->
            [S EXCEPT !.globals.filamentLoaded = v % 256]
      [] f = "ProcessMessage" -> [S EXCEPT !.fsensor = (v # 0)]
      [] f = "SetFSensorToNozzle_mm" ->
            [S EXCEPT !.globals.fsensorToNozzle_mm = v % 256]
      [] f = "SetFSensorUnloadCheck_mm" ->
            [S EXCEPT !.globals.fsensorUnloadCheck_mm = v % 256]
      [] f = "SetPulleyUnloadFeedrate_mm_s" ->
            [S EXCEPT !.globals.pulleyUnloadFeedrate_mm_s = v]
      [] f = "SetPulleyLoadFeedrate_mm_s" ->
            [S EXCEPT !.globals.pulleyLoadFeedrate_mm_s = v]
      [] f = "SetSelectorFeedrate_mm_s" ->
            [S EXCEPT !.globals.selectorFeedrate_mm_s = v]
      [] f = "SetIdlerFeedrate_deg_s" ->
            [S EXCEPT !.globals.idlerFeedrate_deg_s = v]
      [] f = "SetPulleySlowFeedrate_mm_s" ->
            [S EXCEPT !.globals.pulleySlowFeedrate_mm_s = v]
      [] f = "MoveToSlot" ->
            [S EXCEPT !.selector = [state |-> "Moving", slot |-> v % 256]]
      [] f = "EngageOrDisengage" ->
            IF v > toolCount
            THEN [S EXCEPT !.idler = Disengage]
            ELSE [S EXCEPT !.idler = Engage(v % 256)]

\* the write lambdas of the table (A2.writeFunc): the state after the call.
\* Setters taking uint8_t keep the low byte of the uint16_t argument.
WriteFunc(f, v, S) ==
    CASE f = "SetFilamentLoaded" ->
            [S EXCEPT !.globals.filamentLoaded = v % 256]
      [] f = "ProcessMessage" -> [S EXCEPT !.fsensor = (v # 0)]
      [] f = "SetFSensorToNozzle_mm" ->
            [S EXCEPT !.globals.fsensorToNozzle_mm = v % 256]
      [] f = "SetFSensorUnloadCheck_mm" ->
            [S EXCEPT !.globals.fsensorUnloadCheck_mm = v % 256]
      [] f = "SetPulleyUnloadFeedrate_mm_s" ->
            [S EXCEPT !.globals.pulleyUnloadFeedrate_mm_s = v]
      [] f = "SetPulleyLoadFeedrate_mm_s" ->
            [S EXCEPT !.globals.pulleyLoadFeedrate_mm_s = v]
      [] f = "SetSelectorFeedrate_mm_s" ->
            [S EXCEPT !.globals.selectorFeedrate_mm_s = v]
      [] f = "SetIdlerFeedrate_deg_s" ->
            [S EXCEPT !.globals.idlerFeedrate_deg_s = v]
      [] f = "SetPulleySlowFeedrate_mm_s" ->
            [S EXCEPT !.globals.pulleySlowFeedrate_mm_s = v]
      [] f = "MoveToSlot" ->
            [S EXCEPT !.selector = [state |-> "Moving", slot |-> v % 256]]
      [] f = "EngageOrDisengage" ->
            IF v >= toolCount
            THEN [S EXCEPT !.idler = Disengage]
            ELSE [S EXCEPT !.idler = Engage(v % 256)]

\* ------------------------------------------------- register access engine
\* ReadRegister on one descriptor r: the result and the caller's value
ReadRegisterRec(r, S) ==
    IF ~r.flags.rwfuncs
    THEN CASE r.flags.size \in {0, 1} -> [ret |-> TRUE, value |-> S.mem[r.A1] % 256]
           [] r.flags.size = 2 -> [ret |-> TRUE, value |-> S.mem[r.A1]]
           [] OTHER -> [ret |-> FALSE, value |-> 0]
    ELSE CASE r.flags.size \in {0, 1, 2} -> [ret |-> TRUE, value |-> ReadFunc(r.A1, S)]
           [] OTHER -> [ret |-> FALSE, value |-> 0]

\* ReadRegister with `value = 0` moved above the range check
ReadRegister_ZeroFirst(address, val, S) ==
    IF address >= registersSize
    THEN [ret |-> FALSE, value |-> 0]
    ELSE ReadRegisterRec(registers[address + 1], S)

\* bool ReadRegister(uint8_t address, uint16_t &value): val is the content of
\* the caller's variable before the call
ReadRegister(address, val, S) ==
    IF address >= registersSize
    THEN [ret |-> FALSE, value |-> val]
    ELSE ReadRegisterRec(registers[address + 1], S)

\* WriteRegister that tests `writable` only on the accessor path, so that raw
\* memory is stored to whatever the descriptor says
WriteRegisterRec_RawUnchecked(r, v, S) ==
    IF ~r.flags.rwfuncs
    THEN CASE r.flags.size \in {0, 1} ->
                [ret |-> TRUE,
                 sys |-> [S EXCEPT !.mem[r.A1] = ((@ \div 256) * 256) + (v % 256)]]
           [] r.flags.size = 2 -> [ret |-> TRUE, sys |-> [S EXCEPT !.mem[r.A1] = v]]
           [] OTHER -> [ret |-> FALSE, sys |-> S]
    ELSE IF ~r.flags.writable
    THEN [ret |-> FALSE, sys |-> S]
    ELSE CASE r.flags.size \in {0, 1, 2} ->
                [ret |-> TRUE, sys |-> WriteFunc(r.A2, v, S)]
           [] OTHER -> [ret |-> FALSE, sys |-> S]

\* WriteRegister with `default:` placed next to `case 2:` in both switches
WriteRegisterRec_DefaultStores(r, v, S) ==
    IF ~r.flags.writable
    THEN [ret |-> FALSE, sys |-> S]
    ELSE IF ~r.flags.rwfuncs
    THEN CASE r.flags.size \in {0, 1} ->
                [ret |-> TRUE,
                 sys |-> [S EXCEPT !.mem[r.A1] = ((@ \div 256) * 256) + (v % 256)]]
           [] OTHER -> [ret |-> TRUE, sys |-> [S EXCEPT !.mem[r.A1] = v]]
    ELSE [ret |-> TRUE, sys |-> WriteFunc(r.A2, v, S)]

\* WriteRegister whose two-byte raw store goes through the uint8_t pointer too
WriteRegisterRec_WordAsByte(r, v, S) ==
    IF ~r.flags.writable
    THEN [ret |-> FALSE, sys |-> S]
    ELSE IF ~r.flags.rwfuncs
    THEN CASE r.flags.size \in {0, 1, 2} ->
                [ret |-> TRUE,
                 sys |-> [S EXCEPT !.mem[r.A1] = ((@ \div 256) * 256) + (v % 256)]]
           [] OTHER -> [ret |-> FALSE, sys |-> S]
    ELSE CASE r.flags.size \in {0, 1, 2} ->
                [ret |-> TRUE, sys |-> WriteFunc(r.A2, v, S)]
           [] OTHER -> [ret |-> FALSE, sys |-> S]

\* WriteRegister on one descriptor r: the result and the state after the call
WriteRegisterRec(r, v, S) ==
    IF ~r.flags.writable
    THEN [ret |-> FALSE, sys |-> S]
    ELSE IF ~r.flags.rwfuncs
    THEN CASE r.flags.size \in {0, 1} ->
                [ret |-> TRUE,
                 sys |-> [S EXCEPT !.mem[r.A1] = ((@ \div 256) * 256) + (v % 256)]]
           [] r.flags.size = 2 -> [ret |-> TRUE, sys |-> [S EXCEPT !.mem[r.A1] = v]]
           [] OTHER -> [ret |-> FALSE, sys |-> S]
    ELSE CASE r.flags.size \in {0, 1, 2} ->
                [ret |-> TRUE, sys |-> WriteFunc(r.A2, v, S)]
           [] OTHER -> [ret |-> FALSE, sys |-> S]

\* WriteRegister reporting an address out of range through the error code of
\* the running command as well
WriteRegister_FlagsError(address, v, S) ==
    IF address >= registersSize
    THEN [ret |-> FALSE, sys |-> [S EXCEPT !.error = "INTERNAL"]]
    ELSE WriteRegisterRec(registers[address + 1], v, S)

\* bool WriteRegister(uint8_t address, uint16_t value)
WriteRegister(address, v, S) ==
    IF address >= registersSize
    THEN [ret |-> FALSE, sys |-> S]
    ELSE WriteRegisterRec(registers[address + 1], v, S)

\* the host reads a register into a variable of its own, which holds val
\* before the call
Read ==
    \E a \in Addresses, val \in CallerValues :
        LET r == ReadRegister(a, val, Sys) IN
            /\ calls < MaxCalls
            /\ valueIn' = val
            /\ value' = r.value
            /\ lastOp' = "Read" /\ lastAddr' = a /\ lastRet' = r.ret
            /\ calls' = calls + 1
            /\ NotReset
            /\ UNCHANGED <<command, hw>>

\* the host writes a register
Write ==
    \E a \in Addresses, v \in Values :
        LET r == WriteRegister(a, v, Sys) IN
            /\ calls < MaxCalls
            /\ state' = r.sys.state /\ error' = r.sys.error
            /\ idler' = r.sys.idler /\ selector' = r.sys.selector
            /\ globals' = r.sys.globals
            /\ fsensor' = r.sys.fsensor /\ finda' = r.sys.finda
            /\ pulley' = r.sys.pulley /\ valid' = r.sys.valid /\ mem' = r.sys.mem
            /\ lastOp' = "Write" /\ lastAddr' = a /\ lastRet' = r.ret
            /\ valueIn' = (IF r.ret THEN v ELSE 0) /\ value' = 0
            /\ calls' = calls + 1
            /\ NotReset

\* ------------------------------------------------------------ environment
\* the idler and selector modules advance on their own: each may report any
\* state, and a finished homing makes the homing state valid again
ModulesStep ==
    \E i \in AxisStates, s \in AxisStates, h \in BOOLEAN :
        /\ idler' = [idler EXCEPT !.state = i]
        /\ selector' = [selector EXCEPT !.state = s]
        /\ valid' = [homing |-> h, filament |-> h]
        /\ lastOp' = "Modules" /\ lastAddr' = 0 /\ lastRet' = FALSE /\ NoValue
        /\ NotReset
        /\ UNCHANGED <<command, globals, fsensor, finda, pulley, mem, calls>>

\* a test harness (or a memory fault) puts an arbitrary phase into Home::state
ForceState ==
    \E p \in ProgressCodes :
        /\ state' = p
        /\ lastOp' = "Force" /\ lastAddr' = 0 /\ lastRet' = FALSE /\ NoValue
        /\ NotReset
        /\ UNCHANGED <<error, hw, calls>>

\* ---------------------------------------------------------- specification
\* the Home command, idle (OK) since construction, has just been started by
\* its first Reset; the axes are in any state; m is the memory behind the
\* raw registers
InitWith(m) ==
    /\ error = "RUNNING"
    /\ state = "Homing"
    /\ valid = InvalidateHomingAndFilamentState
    /\ idler \in [state : AxisStates, slot : {toolCount}, engaged : {FALSE}]
    /\ selector \in [state : AxisStates, slot : {0}]
    /\ globals = [driveErrors |-> 0, filamentLoaded |-> 0, motorsStealth |-> FALSE,
                  fsensorToNozzle_mm |-> 30, fsensorUnloadCheck_mm |-> 40,
                  pulleyUnloadFeedrate_mm_s |-> 120, pulleyLoadFeedrate_mm_s |-> 80,
                  selectorFeedrate_mm_s |-> 45, idlerFeedrate_deg_s |-> 265,
                  pulleySlowFeedrate_mm_s |-> 20]
    /\ fsensor = FALSE
    /\ finda = FALSE
    /\ pulley = 0
    /\ mem = m
    /\ valueIn = 0 /\ value = 0
    /\ lastOp = "Reset" /\ lastAddr = 0 /\ lastRet = FALSE
    /\ calls = 0
    /\ stateIn = "OK" /\ errorIn = "OK"
    /\ resets = 1

\* the memory the shipped table points into: the version numbers
versionMem ==
    [c \in {"project_major", "project_minor", "project_revision",
            "project_build_number"} |->
        CASE c = "project_major" -> 2
          [] c = "project_minor" -> 1
          [] c = "project_revision" -> 9
          [] c = "project_build_number" -> 66]

Init == InitWith(versionMem)

Next == Reset \/ Step \/ Read \/ Write \/ ModulesStep

Spec == Init /\ [][Next]_vars

\* the main loop invokes Step on the active command every cycle, while the
\* host only polls; what a register write does to the axes (it makes them
\* move), ModulesStep does too
NextLive == Reset \/ Step \/ Read \/ ModulesStep

SpecLive == Init /\ [][NextLive]_vars /\ WF_vars(Step)

\* the command in a test harness that forces its state; the host only polls
NextForced == Reset \/ Step \/ Read \/ ModulesStep \/ ForceState

SpecForced == Init /\ [][NextForced]_vars

\* ------------------------------------------------ the engine on descriptors
\* descriptors the shipped table does not hold, for the branches of
\* ReadRegister and WriteRegister it leaves unused: writable raw memory of
\* every width, and the width 3 the 2-bit size field can hold but no branch
\* handles
testRegisters ==
    << RegisterRecAddr(TRUE, "cell8", 1),                    \* one byte
       RegisterRecAddr(TRUE, "cell16", 2),                   \* two bytes
       RegisterRecAddr(TRUE, "cell1", 0),                    \* one bit
       RegisterRecAddr(TRUE, "cell24", 3),                   \* raw, width 3
       RegisterRecAddr(FALSE, "cell24", 3),                  \* the same, read-only
       RegisterRecR("FSensorToNozzle_mm", 3),                \* accessor, width 3
       RegisterRecRW("IdlerSlot", "EngageOrDisengage", 3),   \* the same, writable
       RegisterRecAddr(FALSE, "cell16", 2) >>                \* read-only raw

\* the memory behind testRegisters
testMem ==
    [c \in {"cell8", "cell16", "cell1", "cell24"} |->
        CASE c = "cell8" -> 7
          [] c = "cell16" -> 1000
          [] c = "cell1" -> 1
          [] c = "cell24" -> 9]

\* ReadRegister past its range check, on a descriptor of testRegisters
ReadRec ==
    \E a \in 0 .. (Len(testRegisters) - 1), val \in CallerValues :
        LET r == ReadRegisterRec(testRegisters[a + 1], Sys) IN
            /\ calls < MaxCalls
            /\ valueIn' = val
            /\ value' = r.value
            /\ lastOp' = "Read" /\ lastAddr' = a /\ lastRet' = r.ret
            /\ calls' = calls + 1
            /\ NotReset
            /\ UNCHANGED <<command, hw>>

\* WriteRegister past its range check, on a descriptor of testRegisters
WriteRec ==
    \E a \in 0 .. (Len(testRegisters) - 1), v \in Values :
        LET r == WriteRegisterRec(testRegisters[a + 1], v, Sys) IN
            /\ calls < MaxCalls
            /\ state' = r.sys.state /\ error' = r.sys.error
            /\ idler' = r.sys.idler /\ selector' = r.sys.selector
            /\ globals' = r.sys.globals
            /\ fsensor' = r.sys.fsensor /\ finda' = r.sys.finda
            /\ pulley' = r.sys.pulley /\ valid' = r.sys.valid /\ mem' = r.sys.mem
            /\ lastOp' = "Write" /\ lastAddr' = a /\ lastRet' = r.ret
            /\ valueIn' = (IF r.ret THEN v ELSE 0) /\ value' = 0
            /\ calls' = calls + 1
            /\ NotReset

InitRec == InitWith(testMem)

NextRec == ReadRec \/ WriteRec

SpecRec == InitRec /\ [][NextRec]_vars

\* ------------------------------------------------------------------ claims
\* the terminal phases of Home
Terminal == {"OK", "ERRInternal"}

C3_NonConvergence ==
    /\ (lastOp = "Step" /\ stateIn = "Homing" /\ ~BothReady)
          => (~lastRet /\ state = "Homing" /\ error = "RUNNING")
    /\ (stateIn # "OK" /\ state = "OK") => (lastOp = "Step" /\ BothReady)
    /\ (stateIn # "Homing" /\ state = "Homing") => lastOp = "Reset"

\* a Step found Homing with an axis not Ready and returned false
C3_Witness ==
    /\ lastOp = "Step" /\ stateIn = "Homing" /\ ~BothReady
    /\ ~lastRet /\ state = "Homing" /\ error = "RUNNING"

\* C4: a ReadRegister or WriteRegister call with an address at or past the end
\* of the table fails, changes no subsystem, register value or command
\* state/error, and the read leaves the caller's value as it was.
C4_OutOfRangeFailsUntouched ==
    [][(lastOp' \in {"Read", "Write"} /\ lastAddr' >= registersSize)
          => /\ ~lastRet'
             /\ UNCHANGED <<command, hw>>
             /\ lastOp' = "Read" => value' = valueIn']_vars

\* a read of the last address failed and left a non-zero caller's value alone
C4_Witness ==
    /\ lastOp = "Read" /\ lastAddr = MaxAddress /\ ~lastRet
    /\ valueIn = 65535 /\ value = 65535

\* C5: a WriteRegister to an in-range register whose descriptor is not
\* writable fails, calls no write function and stores nothing, and
\* ReadRegister of that address returns the same after it as before it.
C5_ReadOnlyWriteFails ==
    [][(/\ lastOp' = "Write"
        /\ lastAddr' < registersSize
        /\ ~registers[lastAddr' + 1].flags.writable)
          => /\ ~lastRet'
             /\ UNCHANGED <<command, hw>>
             /\ ReadRegister(lastAddr', 0, Sys') = ReadRegister(lastAddr', 0, Sys)
             /\ ReadRegister(lastAddr', 0, Sys).ret]_vars

\* a write to the read-only progress register failed while it reads non-zero
C5_Witness ==
    /\ lastOp = "Write" /\ lastAddr = 5 /\ ~lastRet
    /\ ReadRegister(5, 0, Sys).value = ProgressCodeNum("Homing")

\* C6: a Step that finds state other than Homing or OK (ERRInternal itself
\* or a phase outside Home's set) sets state = ERRInternal, error = INTERNAL
\* and returns true whatever the axes report; so does every Step after it.
C6_DefensiveTransition ==
    (lastOp = "Step" /\ stateIn \notin {"Homing", "OK"})
        => (state = "ERRInternal" /\ error = "INTERNAL" /\ lastRet)

\* a Step repeated on ERRInternal/INTERNAL with an axis not Ready
C6_Witness ==
    /\ lastOp = "Step" /\ stateIn = "ERRInternal" /\ errorIn = "INTERNAL"
    /\ state = "ERRInternal" /\ error = "INTERNAL" /\ lastRet /\ ~BothReady

\* a Step has returned true on the finished command
StepDoneOK == lastOp = "Step" /\ lastRet /\ state = "OK" /\ error = "OK"

\* C7: if from some point on both axes stay Ready and no Reset is issued, and
\* the main loop keeps calling Step, a Step returns true with state = OK and
\* error = OK, and does so again whenever anything else has happened since.
C7_ForwardProgress ==
    (<>[]BothReady /\ <>[][lastOp' # "Reset"]_vars) => []<>StepDoneOK

\* the command has finished with both axes Ready
C7_Witness == StepDoneOK /\ BothReady /\ stateIn = "OK"

\* C8: a Reset in any state of the command (Homing, OK, ERRInternal) leaves
\* state = Homing and error = RUNNING, and the run that follows is a fresh
\* one: a Step that finds Homing returns false, and the Step right after the
\* Reset moves to OK exactly when it observes both axes Ready.
C8_ResetRestarts ==
    [][/\ lastOp' = "Reset" => (state' = "Homing" /\ error' = "RUNNING")
       /\ (lastOp = "Reset" /\ lastOp' = "Step")
            => (~lastRet' /\ (state' = "OK" <=> BothReady))
       /\ (lastOp' = "Step" /\ state = "Homing") => ~lastRet']_vars

\* a Reset restarted the command from the terminal ERRInternal phase
C8_Witness ==
    /\ lastOp = "Reset" /\ stateIn = "ERRInternal" /\ errorIn = "INTERNAL"
    /\ state = "Homing" /\ error = "RUNNING"

\* C9: a Reset that follows a Reset with no other call in between changes
\* nothing of the command: state = Homing, error = RUNNING as after the first.
C9_ResetIdempotent ==
    resets >= 2
        => /\ lastOp = "Reset"
           /\ stateIn = "Homing" /\ errorIn = "RUNNING"
           /\ state = stateIn /\ error = errorIn
           /\ valid = InvalidateHomingAndFilamentState

\* a Reset that found the command as the Reset before it had left it
C9_Witness ==
    /\ lastOp = "Reset" /\ resets >= 2 /\ stateIn = "Homing" /\ errorIn = "RUNNING"
    /\ state = "Homing" /\ error = "RUNNING"

\* the (progress, error) pairs of a command that is not in mid-transition
ConsistentWire ==
    { <<ProgressCodeNum("Homing"), ErrorCodeNum("RUNNING")>>,
      <<ProgressCodeNum("OK"), ErrorCodeNum("OK")>>,
      <<ProgressCodeNum("ERRInternal"), ErrorCodeNum("INTERNAL")>> }

\* C10: after every call, registers 0x05 and 0x06 read a consistent pair
\* (Homing, RUNNING), (OK, OK) or (ERRInternal, INTERNAL); in particular a
\* read of 0x05 followed at once by a read of 0x06 returns such a pair.
C10_ConsistentPair ==
    [][/\ <<ReadRegister(5, 0, Sys').value, ReadRegister(6, 0, Sys').value>>
              \in ConsistentWire
       /\ (lastOp = "Read" /\ lastAddr = 5 /\ lastOp' = "Read" /\ lastAddr' = 6)
            => (lastRet /\ lastRet' /\ <<value, value'>> \in ConsistentWire)]_vars

\* the error register read OK, as the second register call, on a finished
\* command
C10_Witness ==
    /\ lastOp = "Read" /\ lastAddr = 6 /\ lastRet /\ calls = 2
    /\ value = ErrorCodeNum("OK") /\ state = "OK"

\* v truncated to the width of a descriptor and zero-extended to 16 bits
Truncated(v, size) == IF size \in {0, 1} THEN v % 256 ELSE v

\* the writable raw-memory descriptors of testRegisters with a width the
\* engine handles, by index
RawWritable ==
    {a \in 0 .. (Len(testRegisters) - 1) :
        /\ testRegisters[a + 1].flags.writable
        /\ ~testRegisters[a + 1].flags.rwfuncs
        /\ testRegisters[a + 1].flags.size \in {0, 1, 2}}

\* C11: round trip. A write of v to a writable raw-memory register of width
\* one bit, one byte or two bytes succeeds, and a read of the same register
\* that follows it immediately succeeds and returns v truncated to the
\* register's width (v mod 256 for one bit and one byte, v for two bytes).
C11_RoundTrip ==
    [][/\ (lastOp' = "Write" /\ lastAddr' \in RawWritable) => lastRet'
       /\ (/\ lastOp = "Write" /\ lastAddr \in RawWritable
           /\ lastOp' = "Read" /\ lastAddr' = lastAddr)
          => /\ lastRet'
             /\ value' = Truncated(valueIn,
                                   testRegisters[lastAddr + 1].flags.size)]_vars

\* 300 was written to the one-byte register, which held 7, and read back as 44
C11_Witness ==
    /\ lastOp = "Read" /\ lastAddr = 0 /\ lastRet
    /\ value = 44 /\ mem["cell8"] = 44
    /\ calls = 2

\* the addresses the address map marks RW
WritableMap == {7, 9, 11, 12, 13, 17, 18, 19, 20, 27, 28}

C13_IdlerSlotBoundary ==
    (lastOp = "Write" /\ lastAddr = 28)
        => /\ lastRet
           /\ valueIn >= toolCount => idler = Disengage
           /\ valueIn < toolCount => idler = Engage(valueIn)
           /\ valueIn >= toolCount
                => /\ ~idler.engaged
                   /\ ReadRegister(28, 0, Sys).ret
                   /\ ReadRegister(28, 0, Sys).value \notin 0 .. (toolCount - 1)

\* toolCount itself was written to 0x1C, and the idler is disengaged
C13_Witness ==
    /\ lastOp = "Write" /\ lastAddr = 28 /\ lastRet
    /\ valueIn = toolCount
    /\ ~idler.engaged /\ idler.state = "Moving"

\* C14: no register access changes the running command: after every
\* ReadRegister and every WriteRegister, successful or failed, state and error
\* are what they were at the call; a write to 0x05 or 0x06 fails; state and
\* error differ from their value at the last call only after a Reset or a Step.
C14_RegistersLeaveCommand ==
    /\ lastOp \in {"Read", "Write"} => (state = stateIn /\ error = errorIn)
    /\ (lastOp = "Write" /\ lastAddr \in {5, 6}) => ~lastRet
    /\ (state # stateIn \/ error # errorIn) => lastOp \in {"Reset", "Step"}

\* the host wrote to the progress code register 0x05 of a finished command
C14_Witness ==
    /\ lastOp = "Write" /\ lastAddr = 5 /\ ~lastRet
    /\ state = "OK" /\ error = "OK"

\* C15: Step is a pure coordinator: in every state of the command and for
\* every readiness of the axes, a Step changes nothing but the command's
\* state and error: the idler and the selector (state and slot), the pulley,
\* the sensors, the globals behind the registers, the validity of homing and
\* the raw memory stay as they were.
C15_StepOnlyCoordinates ==
    [][lastOp' = "Step" => UNCHANGED hw]_vars

\* a Step found both axes Ready and a valid homing, finished the command, and
\* the axes and the homing are as they were
C15_Witness ==
    /\ lastOp = "Step" /\ stateIn = "Homing" /\ state = "OK"
    /\ BothReady /\ valid.homing /\ valid.filament

\* C16: every Reset, of a running command and of a finished one alike,
\* leaves the homing and the filament-presence state invalid in the same call
\* that sets state = Homing and error = RUNNING: no Step of the new run sees
\* the command restarted and the old validity still standing.
C16_ResetInvalidates ==
    lastOp = "Reset" => /\ valid = [homing |-> FALSE, filament |-> FALSE]
                        /\ state = "Homing" /\ error = "RUNNING"

\* a command that had finished, and whose state the host had polled, was
\* reset again
C16_Witness ==
    /\ lastOp = "Reset" /\ calls > 0
    /\ stateIn = "OK" /\ errorIn = "OK"
    /\ ~valid.homing /\ ~valid.filament

\* a descriptor is well formed: computed, it has a read function, and a write
\* function exactly when it is writable; its width code is 0, 1 or 2
WellFormed(r) ==
    /\ r.flags.rwfuncs => r.A1 # "nullptr"
    /\ r.flags.rwfuncs => (r.flags.writable <=> r.A2 # "nullptr")
    /\ r.flags.size \in {0, 1, 2}

\* C17: every entry of the shipped table is well formed. Hence a write that
\* succeeds through a write function has found one, and no access to an
\* address of the table fails for its width: a read succeeds, and a write
\* succeeds exactly when the entry is writable.
C17_TableWellFormed ==
    /\ \A i \in 1 .. registersSize : WellFormed(registers[i])
    /\ (lastOp = "Write" /\ lastRet /\ registers[lastAddr + 1].flags.rwfuncs)
          => registers[lastAddr + 1].A2 # "nullptr"
    /\ (lastOp = "Read" /\ lastAddr < registersSize) => lastRet
    /\ (lastOp = "Write" /\ lastAddr < registersSize)
          => (lastRet <=> registers[lastAddr + 1].flags.writable)

\* a write went through the write function of the two-byte register 0x0D
C17_Witness ==
    /\ lastOp = "Write" /\ lastAddr = 13 /\ lastRet
    /\ valueIn = 300 /\ globals.pulleyUnloadFeedrate_mm_s = 300

\* the descriptors of testRegisters with the width code 3, by index
Width3 ==
    {a \in 0 .. (Len(testRegisters) - 1) : testRegisters[a + 1].flags.size = 3}

\* C18: on a descriptor of width code 3, raw or computed, a read fails with
\* nothing loaded and no read function called (the caller's value is the 0
\* the function starts with), and a write fails, on a writable descriptor
\* too, with nothing stored and no write function called: memory, modules
\* and command are as before the call.
C18_Width3Fails ==
    [][(lastOp' \in {"Read", "Write"} /\ lastAddr' \in Width3)
          => /\ ~lastRet'
             /\ UNCHANGED <<command, hw>>
             /\ lastOp' = "Read" => value' = 0]_vars

\* a write to the writable computed descriptor of width 3 failed and the
\* idler, which its write function would have moved, is where it was
C18_Witness ==
    /\ lastOp = "Write" /\ lastAddr = 6 /\ ~lastRet
    /\ testRegisters[7].flags.writable /\ testRegisters[7].flags.size = 3
    /\ ~idler.engaged /\ idler.state = "Ready"

\* C19: from its first Reset on, whatever Reset, Step and register calls are
\* made and however the readiness of the axes evolves, the command is either
\* running (Homing, RUNNING) or finished (OK, OK); ERRInternal / INTERNAL is
\* never reached.
C19_RunningOrFinished ==
    <<state, error>> \in {<<"Homing", "RUNNING">>, <<"OK", "OK">>}

\* the command has finished and an axis has left Ready since
C19_Witness ==
    /\ state = "OK" /\ error = "OK"
    /\ lastOp = "Modules" /\ ~BothReady

\* C20: bounded response. Of two consecutive Steps made with both axes Ready
\* the second returns true with state = OK and error = OK; a Step that finds
\* the state OK returns true and leaves OK / OK; and the state OK is left only
\* by a Reset.
C20_TrueWithinTwoSteps ==
    [][/\ (lastOp = "Step" /\ BothReady /\ lastOp' = "Step")
          => (lastRet' /\ state' = "OK" /\ error' = "OK")
       /\ (state = "OK" /\ lastOp' = "Step")
          => (lastRet' /\ state' = "OK" /\ error' = "OK")
       /\ (state = "OK" /\ lastOp' # "Reset") => state' = "OK"]_vars

\* after the homing became valid, a Step on the finished command returned
\* true again
C20_Witness ==
    /\ lastOp = "Step" /\ lastRet /\ stateIn = "OK" /\ errorIn = "OK"
    /\ state = "OK" /\ error = "OK"
    /\ BothReady /\ valid.homing

====
